---------------------------- MODULE Spec2Model ----------------------------
(***************************************************************************)
(* Model of the DDoS attack map backend: the application lifespan and the  *)
(* background scheduler of backend/app/main.py, the health endpoint of     *)
(* backend/app/routers/health.py, and the settings of                      *)
(* backend/app/settings.py.                                                *)
(*                                                                         *)
(* Time is counted in clock ticks; one hour is TicksPerHour ticks and the  *)
(* interval settings are drawn in ticks.  The scheduler is APScheduler's   *)
(* AsyncIOScheduler used with the defaults add_job leaves in force         *)
(* (max_instances = 1, coalescing, fire times aligned to the trigger's     *)
(* start date).                                                            *)
(***************************************************************************)
EXTENDS Integers, Sequences, FiniteSets

VARIABLES
    settings,        \* the Settings instance (settings.py)
    now,             \* the wall clock, in ticks
    lifespan,        \* position of lifespan(), the startup steps passed, a failure
    redis_client,    \* global redis_client: "none" | "open" | "closed"
    scheduler,       \* global scheduler: "none" | "stopped" | "running" | "shutdown"
    jobs,            \* ids of the jobs added to the scheduler
    start_date,      \* per job: the interval trigger's start date
    next_run_time,   \* per job: the next fire time
    first_run_time,  \* per job: the first fire time computed by scheduler.start()
    executions,      \* per job: the in-flight executions, each [pc, now_read, cutoff]
    stats,           \* per job: executions succeeded / failed, fire times skipped
    store,           \* durable store: the DDoSEvent rows
    next_id,         \* next row identifier
    events_cache,    \* volatile cache: identifiers of the recent records, oldest first
    last_append,     \* the last Store.append: was the identifier present, count written
    last_cleanup,    \* the last committed run of cleanup_old_events
    shutdown_left,   \* jobs whose execution was in flight when scheduler.shutdown() returned
    health,          \* the health_check or readiness_probe request in progress
    probe_clients,   \* Redis clients opened by health requests and not closed
    requests,        \* health requests served so far
    conns,           \* per subscriber connection: state, queue, records observed
    published,       \* number of records published to the fan-out manager
    last_admit       \* the last admission decision of the fan-out manager

ingestVars ==
    <<events_cache, last_append>>

mainVars ==
    <<now, lifespan, redis_client, scheduler, jobs, start_date, next_run_time,
      first_run_time, executions, stats, store, next_id, ingestVars, last_cleanup, shutdown_left>>

healthVars ==
    <<health, probe_clients, requests>>

fanoutVars ==
    <<conns, published, last_admit>>

vars ==
    <<settings, mainVars, healthVars, fanoutVars>>

----------------------------------------------------------------------------
\* Bounds of the model.

MaxTime ==
    3

TicksPerHour ==
    1

MaxCleanupHours ==
    2

MaxRecords ==
    2

----------------------------------------------------------------------------
\* Settings (settings.py).  The flags carry the defaults of their Field(...)
\* declarations; intervals and limits are in the model's units.  The fields a
\* specification explores are drawn in its Init.

DefaultSettings ==
    [ enable_abuseipdb                |-> FALSE,
      abuseipdb_key                   |-> FALSE,
      enable_real_radar_data          |-> FALSE,
      cloudflare_source               |-> "mock",
      radar_fetch_interval_seconds    |-> 1,
      abuseip_enrich_interval_seconds |-> 2,
      event_cleanup_hours             |-> 1,
      websocket_rate_limit            |-> 1,
      max_events_cache_size           |-> 1,
      max_websocket_connections       |-> 1 ]

FETCH ==
    "fetch_radar_data"

ENRICH ==
    "enrich_abuse_ips"

CLEANUP ==
    "cleanup_events"

JobIds ==
    {FETCH, ENRICH, CLEANUP}

\* add_job(..., 'interval', hours=1) of the cleanup job.
CleanupIntervalHours ==
    1

\* add_job is called without max_instances: APScheduler's default is in force.
MaxInstances ==
    1

\* The interval of each job's trigger, as passed to add_job.
Interval(j) ==
    CASE j = FETCH   -> settings.radar_fetch_interval_seconds
      [] j = ENRICH  -> settings.abuseip_enrich_interval_seconds
      [] OTHER       -> CleanupIntervalHours * TicksPerHour

\* The jobs setup_background_tasks adds, given the settings.
RegisteredJobs_AlwaysEnrich(s) ==
    {FETCH, ENRICH, CLEANUP}

RegisteredJobs(s) ==
    {FETCH} \cup (IF s.enable_abuseipdb THEN {ENRICH} ELSE {}) \cup {CLEANUP}

NoStats ==
    [succeeded |-> 0, failed |-> 0, skipped |-> 0]

NoCleanup ==
    [ran |-> FALSE, now_read |-> 0, cutoff |-> 0, removed |-> {}]

NoAppend ==
    [present |-> FALSE, written |-> 0, appended |-> FALSE]

NoHealth ==
    [pc |-> "idle"]

MaxConns ==
    2

Conns ==
    1..MaxConns

NoConn ==
    [state |-> "none", queue |-> <<>>, observed |-> <<>>, active_from |-> 0]

NoAdmit ==
    [outcome |-> "none", live_before |-> 0, live_kept |-> TRUE]

MainInit ==
    /\ now = 0
    /\ lifespan = [pc |-> "start", failed |-> FALSE, passed |-> {}]
    /\ redis_client = "none"
    /\ scheduler = "none"
    /\ jobs = {}
    /\ start_date = [j \in JobIds |-> 0]
    /\ next_run_time = [j \in JobIds |-> 0]
    /\ first_run_time = [j \in JobIds |-> 0]
    /\ executions = [j \in JobIds |-> <<>>]
    /\ stats = [j \in JobIds |-> NoStats]
    /\ store = {}
    /\ next_id = 1
    /\ events_cache = <<>>
    /\ last_append = NoAppend
    /\ last_cleanup = NoCleanup
    /\ shutdown_left = {}

HealthIdle ==
    /\ health = NoHealth
    /\ probe_clients = 0
    /\ requests = 0

FanoutIdle ==
    /\ conns = [c \in Conns |-> NoConn]
    /\ published = 0
    /\ last_admit = NoAdmit

Init ==
    /\ settings \in
         { [DefaultSettings EXCEPT !.enable_abuseipdb = e, !.event_cleanup_hours = h] :
             e \in BOOLEAN, h \in 1..MaxCleanupHours }
    /\ MainInit
    /\ HealthIdle
    /\ FanoutIdle

----------------------------------------------------------------------------
\* The clock.  While the scheduler runs it wakes up at every fire time, so
\* the clock does not pass a job that is due before the job is processed.

Due(j) ==
    j \in jobs /\ next_run_time[j] <= now

Tick ==
    /\ now < MaxTime
    /\ scheduler = "running" => \A j \in jobs : ~Due(j)
    /\ now' = now + 1
    /\ UNCHANGED <<settings, lifespan, redis_client, scheduler, jobs, start_date,
                   next_run_time, first_run_time, executions, stats, store, next_id, ingestVars,
                   last_cleanup, shutdown_left, healthVars, fanoutVars>>

----------------------------------------------------------------------------
\* lifespan() (main.py 39-81).

\* A startup step returns and the try block goes on to the next one.
Passed(step, to) ==
    [lifespan EXCEPT !.pc = to, !.passed = @ \cup {step}]

\* A startup step raises: except Exception logs and re-raises, and the finally
\* block runs.
Failed ==
    [lifespan EXCEPT !.pc = "close_redis", !.failed = TRUE]

\* redis.from_url(...) then await redis_client.ping().
LifespanRedisPing(ok) ==
    /\ lifespan.pc = "start"
    /\ redis_client' = "open"
    /\ lifespan' = IF ok THEN Passed("ping", "init_db") ELSE Failed
    /\ UNCHANGED <<settings, now, scheduler, jobs, start_date, next_run_time,
                   first_run_time, executions, stats, store, next_id, ingestVars, last_cleanup,
                   shutdown_left, healthVars, fanoutVars>>

\* await init_db().
LifespanInitDb_IgnoresFailure(ok) ==
    /\ lifespan.pc = "init_db"
    /\ lifespan' = IF ok THEN Passed("init_db", "setup")
                         ELSE [lifespan EXCEPT !.pc = "setup"]
    /\ UNCHANGED <<settings, now, redis_client, scheduler, jobs, start_date,
                   next_run_time, first_run_time, executions, stats, store, next_id, ingestVars,
                   last_cleanup, shutdown_left, healthVars, fanoutVars>>

LifespanInitDb(ok) ==
    /\ lifespan.pc = "init_db"
    /\ lifespan' = IF ok THEN Passed("init_db", "setup") ELSE Failed
    /\ UNCHANGED <<settings, now, redis_client, scheduler, jobs, start_date,
                   next_run_time, first_run_time, executions, stats, store, next_id, ingestVars,
                   last_cleanup, shutdown_left, healthVars, fanoutVars>>

\* WebSocketManager(redis_client); scheduler = AsyncIOScheduler();
\* await setup_background_tasks(scheduler, redis_client) (main.py 131-170).
\* An interval trigger built without a start date starts one interval after
\* the moment add_job is called.
SetupBackgroundTasks(ok) ==
    /\ lifespan.pc = "setup"
    /\ scheduler' = "stopped"
    /\ IF ok
         THEN /\ jobs' = RegisteredJobs(settings)
              /\ start_date' = [j \in JobIds |-> now + Interval(j)]
              /\ lifespan' = Passed("setup", "sched_start")
         ELSE /\ UNCHANGED <<jobs, start_date>>
              /\ lifespan' = Failed
    /\ UNCHANGED <<settings, now, redis_client, next_run_time, first_run_time,
                   executions, stats, store, next_id, ingestVars, last_cleanup, shutdown_left,
                   healthVars, fanoutVars>>

CeilDiv(a, b) ==
    (a + b - 1) \div b

\* The trigger's first fire time at or after t: the start date, or the next
\* multiple of the interval after it.
FirstFireTime(j, t) ==
    IF start_date[j] > t
      THEN start_date[j]
      ELSE start_date[j] + CeilDiv(t - start_date[j], Interval(j)) * Interval(j)

\* scheduler.start(), then the lifespan yields: the application serves.
LifespanSchedulerStart(ok) ==
    /\ lifespan.pc = "sched_start"
    /\ IF ok
         THEN /\ scheduler' = "running"
              /\ next_run_time' = [j \in JobIds |-> FirstFireTime(j, now)]
              /\ first_run_time' = [j \in JobIds |-> FirstFireTime(j, now)]
              /\ lifespan' = Passed("start", "serving")
         ELSE /\ UNCHANGED <<scheduler, next_run_time, first_run_time>>
              /\ lifespan' = Failed
    /\ UNCHANGED <<settings, now, redis_client, jobs, start_date, executions, stats,
                   store, next_id, ingestVars, last_cleanup, shutdown_left, healthVars, fanoutVars>>

\* What the scheduler holds about a job added by add_job(func, 'interval', ...,
\* id=..., name=...): its id, its trigger and its next fire time.
JobDescriptor(j) ==
    [id |-> j, interval |-> Interval(j), next_run_time |-> next_run_time[j]]

InFlight ==
    {j \in JobIds : executions[j] # <<>>}

\* What scheduler.shutdown() does to one job's in-flight executions.  The call
\* is synchronous and is made on the event loop the job coroutines run on, so
\* no coroutine can make a step while it runs: the asyncio executor asks every
\* pending execution to cancel and returns.
ShutdownExecutions(es) ==
    [i \in 1..Len(es) |-> [es[i] EXCEPT !.pc = "cancelled"]]

\* The application is told to stop: control returns from the yield and runs,
\* without suspending, finally: if scheduler and scheduler.running:
\* scheduler.shutdown().  (On the failing paths of startup the scheduler is
\* not running and the finally block goes straight to the Redis client.)
LifespanSchedulerShutdown ==
    /\ lifespan.pc = "serving"
    /\ lifespan' = [lifespan EXCEPT !.pc = "close_redis"]
    /\ scheduler = "running"
    /\ scheduler' = "shutdown"
    /\ shutdown_left' = InFlight
    /\ executions' = [j \in JobIds |-> ShutdownExecutions(executions[j])]
    /\ UNCHANGED <<settings, now, redis_client, jobs, start_date, next_run_time,
                   first_run_time, stats, store, next_id, ingestVars, last_cleanup,
                   healthVars, fanoutVars>>

\* finally: if redis_client: await redis_client.close().
LifespanRedisClose_AfterServingOnly ==
    /\ lifespan.pc = "close_redis"
    /\ redis_client' = IF redis_client = "none" \/ lifespan.failed
                         THEN redis_client ELSE "closed"
    /\ lifespan' = [lifespan EXCEPT !.pc = "done"]
    /\ UNCHANGED <<settings, now, scheduler, jobs, start_date, next_run_time,
                   first_run_time, executions, stats, store, next_id, ingestVars, last_cleanup,
                   shutdown_left, healthVars, fanoutVars>>

LifespanRedisClose ==
    /\ lifespan.pc = "close_redis"
    /\ redis_client' = IF redis_client = "none" THEN "none" ELSE "closed"
    /\ lifespan' = [lifespan EXCEPT !.pc = "done"]
    /\ UNCHANGED <<settings, now, scheduler, jobs, start_date, next_run_time,
                   first_run_time, executions, stats, store, next_id, ingestVars, last_cleanup,
                   shutdown_left, healthVars, fanoutVars>>

----------------------------------------------------------------------------
\* The scheduler's dispatch of the jobs added by setup_background_tasks
\* (main.py 143-168).

NewExecution ==
    [pc |-> "start", now_read |-> 0, cutoff |-> 0]

RemoveAt(es, i) ==
    [k \in 1..(Len(es) - 1) |-> IF k < i THEN es[k] ELSE es[k + 1]]

Bump(j, field) ==
    [stats EXCEPT ![j][field] = @ + 1]

\* The executor accepts a run of a job only below the job's max_instances.
CanSubmit_NoLimit(j) ==
    TRUE

CanSubmit(j) ==
    Len(executions[j]) < MaxInstances

\* The fire time after the one being processed: the interval trigger adds the
\* interval to the previous fire time, whatever the runs of the job are doing.
NextFireTime_FromRunEnd(j) ==
    now + Interval(j) + Len(executions[j])

NextFireTime(j) ==
    next_run_time[j] + Interval(j)

\* A job that is due fires: the run is handed to the executor, or skipped when
\* the job already has max_instances executions in flight; either way the next
\* fire time is one interval after this one.
ProcessJob_AfterShutdown(j) ==
    /\ scheduler \in {"running", "shutdown"}
    /\ Due(j)
    /\ IF CanSubmit(j)
         THEN /\ executions' = [executions EXCEPT ![j] = Append(@, NewExecution)]
              /\ UNCHANGED stats
         ELSE /\ stats' = Bump(j, "skipped")
              /\ UNCHANGED executions
    /\ next_run_time' = [next_run_time EXCEPT ![j] = NextFireTime(j)]
    /\ UNCHANGED <<settings, now, lifespan, redis_client, scheduler, jobs, start_date,
                   first_run_time, store, next_id, ingestVars, last_cleanup, shutdown_left,
                   healthVars, fanoutVars>>

ProcessJob(j) ==
    /\ scheduler = "running"
    /\ Due(j)
    /\ IF CanSubmit(j)
         THEN /\ executions' = [executions EXCEPT ![j] = Append(@, NewExecution)]
              /\ UNCHANGED stats
         ELSE /\ stats' = Bump(j, "skipped")
              /\ UNCHANGED executions
    /\ next_run_time' = [next_run_time EXCEPT ![j] = NextFireTime(j)]
    /\ UNCHANGED <<settings, now, lifespan, redis_client, scheduler, jobs, start_date,
                   first_run_time, store, next_id, ingestVars, last_cleanup, shutdown_left,
                   healthVars, fanoutVars>>

Running(j, i) ==
    /\ i \in 1..Len(executions[j])
    /\ executions[j][i].pc # "cancelled"

\* An execution raises: the executor catches the error and logs it; the
\* scheduler and the other jobs are not touched.
JobRaise_StopsScheduler(j, i) ==
    /\ Running(j, i)
    /\ executions' = [executions EXCEPT ![j] = RemoveAt(@, i)]
    /\ stats' = Bump(j, "failed")
    /\ scheduler' = IF scheduler = "running" THEN "shutdown" ELSE scheduler
    /\ UNCHANGED <<settings, now, lifespan, redis_client, jobs, start_date,
                   next_run_time, first_run_time, store, next_id, ingestVars, last_cleanup,
                   shutdown_left, healthVars, fanoutVars>>

JobRaise_RemovesJob(j, i) ==
    /\ Running(j, i)
    /\ executions' = [executions EXCEPT ![j] = RemoveAt(@, i)]
    /\ stats' = Bump(j, "failed")
    /\ jobs' = jobs \ {j}
    /\ UNCHANGED <<settings, now, lifespan, redis_client, scheduler, start_date,
                   next_run_time, first_run_time, store, next_id, ingestVars, last_cleanup,
                   shutdown_left, healthVars, fanoutVars>>

JobRaise(j, i) ==
    /\ Running(j, i)
    /\ executions' = [executions EXCEPT ![j] = RemoveAt(@, i)]
    /\ stats' = Bump(j, "failed")
    /\ UNCHANGED <<settings, now, lifespan, redis_client, scheduler, jobs, start_date,
                   next_run_time, first_run_time, store, next_id, ingestVars, last_cleanup,
                   shutdown_left, healthVars, fanoutVars>>

\* An execution that scheduler.shutdown() asked to cancel ends at its next
\* suspension point.
JobCancelled(j, i) ==
    /\ i \in 1..Len(executions[j])
    /\ executions[j][i].pc = "cancelled"
    /\ executions' = [executions EXCEPT ![j] = RemoveAt(@, i)]
    /\ UNCHANGED <<settings, now, lifespan, redis_client, scheduler, jobs, start_date,
                   next_run_time, first_run_time, stats, store, next_id, ingestVars, last_cleanup,
                   shutdown_left, healthVars, fanoutVars>>

----------------------------------------------------------------------------
\* The job bodies.

\* Store.append of one record: a record whose identifier is already present is
\* rejected, a new one is created now with its enrichment pending.
HasId(rows, id) ==
    \E r \in rows : r.id = id

AppendRecord_NoDedup(rows, id, t) ==
    rows \cup {[id |-> id, created_at |-> t, status |-> "pending"]}

AppendRecord(rows, id, t) ==
    IF HasId(rows, id)
      THEN rows
      ELSE rows \cup {[id |-> id, created_at |-> t, status |-> "pending"]}

\* The count written that Store.append returns for the record.
CountWritten(rows, id, t) ==
    Cardinality(AppendRecord(rows, id, t)) - Cardinality(rows)

\* The volatile cache takes a newly written record as its most recent one and
\* evicts from the oldest end above its capacity.
CachePut(c, id, cap) ==
    LET others == SelectSeq(c, LAMBDA x : x # id)
        put    == Append(others, id)
    IN  IF Len(put) > cap THEN SubSeq(put, Len(put) - cap + 1, Len(put)) ELSE put

\* The identifiers one ingestion cycle can deliver: the producer's next new
\* record, or one it has delivered before.
Deliverable ==
    1..(IF next_id <= MaxRecords THEN next_id ELSE MaxRecords)

\* radar_fetcher.fetch_latest_data: one ingestion cycle delivering one record
\* to Store.append.
FetchLatestData(i) ==
    /\ Running(FETCH, i)
    /\ \E id \in Deliverable :
         /\ store' = AppendRecord(store, id, now)
         /\ next_id' = IF id = next_id THEN next_id + 1 ELSE next_id
         /\ last_append' = [present |-> HasId(store, id),
                            written |-> CountWritten(store, id, now),
                            appended |-> TRUE]
         /\ events_cache' =
              IF CountWritten(store, id, now) > 0
                THEN CachePut(events_cache, id, settings.max_events_cache_size)
                ELSE events_cache
    /\ executions' = [executions EXCEPT ![FETCH] = RemoveAt(@, i)]
    /\ stats' = Bump(FETCH, "succeeded")
    /\ UNCHANGED <<settings, now, lifespan, redis_client, scheduler, jobs, start_date,
                   next_run_time, first_run_time, last_cleanup, shutdown_left,
                   healthVars, fanoutVars>>

\* Store.mark_enriched / the skipped mark on one record.
MarkRecord(rows, r, status) ==
    (rows \ {r}) \cup {[r EXCEPT !.status = status]}

\* abuse_enricher.enrich_recent_ips: one enrichment cycle over one pending
\* record, which the scoring call enriches or leaves skipped.
EnrichRecentIps(i) ==
    /\ Running(ENRICH, i)
    /\ \/ \E r \in store, st \in {"enriched", "skipped"} :
             /\ r.status = "pending"
             /\ store' = MarkRecord(store, r, st)
       \/ /\ \A r \in store : r.status # "pending"
          /\ UNCHANGED store
    /\ executions' = [executions EXCEPT ![ENRICH] = RemoveAt(@, i)]
    /\ stats' = Bump(ENRICH, "succeeded")
    /\ UNCHANGED <<settings, now, lifespan, redis_client, scheduler, jobs, start_date,
                   next_run_time, first_run_time, next_id, ingestVars, last_cleanup, shutdown_left,
                   healthVars, fanoutVars>>

\* cleanup_old_events (main.py 173-187).
\* cutoff_time = datetime.utcnow() - timedelta(hours=settings.event_cleanup_hours)
CutoffTime(t, s) ==
    t - s.event_cleanup_hours * TicksPerHour

\* delete(DDoSEvent).where(DDoSEvent.created_at < cutoff_time): the rows left.
DeleteOlderThan_Inclusive(rows, cutoff) ==
    {r \in rows : ~(r.created_at <= cutoff)}

DeleteOlderThan_NewerThan(rows, cutoff) ==
    {r \in rows : ~(r.created_at > cutoff)}

DeleteOlderThan(rows, cutoff) ==
    {r \in rows : ~(r.created_at < cutoff)}

CleanupComputeCutoff(i) ==
    /\ Running(CLEANUP, i)
    /\ executions[CLEANUP][i].pc = "start"
    /\ executions' = [executions EXCEPT ![CLEANUP][i] =
                        [pc |-> "delete", now_read |-> now,
                         cutoff |-> CutoffTime(now, settings)]]
    /\ UNCHANGED <<settings, now, lifespan, redis_client, scheduler, jobs, start_date,
                   next_run_time, first_run_time, stats, store, next_id, ingestVars, last_cleanup,
                   shutdown_left, healthVars, fanoutVars>>

\* session.exec(stmt); session.commit(); the execution ends.
CleanupDelete(i) ==
    /\ Running(CLEANUP, i)
    /\ executions[CLEANUP][i].pc = "delete"
    /\ store' = DeleteOlderThan(store, executions[CLEANUP][i].cutoff)
    /\ last_cleanup' = [ran |-> TRUE,
                        now_read |-> executions[CLEANUP][i].now_read,
                        cutoff |-> executions[CLEANUP][i].cutoff,
                        removed |-> store \ store']
    /\ executions' = [executions EXCEPT ![CLEANUP] = RemoveAt(@, i)]
    /\ stats' = Bump(CLEANUP, "succeeded")
    /\ UNCHANGED <<settings, now, lifespan, redis_client, scheduler, jobs, start_date,
                   next_run_time, first_run_time, next_id, ingestVars, shutdown_left,
                   healthVars, fanoutVars>>

----------------------------------------------------------------------------

Slots ==
    1..(MaxInstances + 1)

Next ==
    \/ Tick
    \/ \E ok \in BOOLEAN : LifespanRedisPing(ok)
    \/ \E ok \in BOOLEAN : LifespanInitDb(ok)
    \/ \E ok \in BOOLEAN : SetupBackgroundTasks(ok)
    \/ \E ok \in BOOLEAN : LifespanSchedulerStart(ok)
    \/ LifespanSchedulerShutdown
    \/ LifespanRedisClose
    \/ \E j \in JobIds : ProcessJob(j)
    \/ \E j \in JobIds, i \in Slots : JobRaise(j, i)
    \/ \E j \in JobIds, i \in Slots : JobCancelled(j, i)
    \/ \E i \in Slots : FetchLatestData(i)
    \/ \E i \in Slots : EnrichRecentIps(i)
    \/ \E i \in Slots : CleanupComputeCutoff(i)
    \/ \E i \in Slots : CleanupDelete(i)

Spec ==
    Init /\ [][Next]_vars

----------------------------------------------------------------------------
\* health_check (routers/health.py 22-90).  A dependency is "up" (the probe
\* returns), "down" (the probe raises) or "silent" (the probe is never
\* answered); neither probe is given a timeout.

MaxRequests ==
    2

DependencyStates ==
    {"up", "down", "silent"}

\* A request arrives: health_data and overall_healthy are initialised.
HealthRequest(db, cache) ==
    /\ health.pc \in {"idle", "done", "ready_done"}
    /\ requests < MaxRequests
    /\ requests' = requests + 1
    /\ health' = [pc |-> "database", db |-> db, cache |-> cache,
                  status |-> "healthy", overall_healthy |-> TRUE,
                  database |-> "absent", redis |-> "absent",
                  external_apis |-> "absent", status_code |-> 0]
    /\ UNCHANGED <<settings, mainVars, probe_clients, fanoutVars>>

\* Where health_check goes after the database probe, whatever its outcome.
AfterDatabaseProbe_AbortsOnFailure(ok) ==
    IF ok THEN "redis" ELSE "external"

AfterDatabaseProbe(ok) ==
    "redis"

\* try: async with get_session() ...: await session.exec("SELECT 1")
\* except Exception: database unhealthy, overall_healthy = False.
\* Then the Redis probe opens its client: redis.from_url(...).
HealthDatabaseProbe ==
    /\ health.pc = "database"
    /\ health.db # "silent"
    /\ LET ok == health.db = "up"
           to == AfterDatabaseProbe(ok)
       IN  /\ health' = [health EXCEPT
                           !.database = IF ok THEN "healthy" ELSE "unhealthy",
                           !.overall_healthy = IF ok THEN @ ELSE FALSE,
                           !.pc = to]
           /\ probe_clients' = IF to = "redis" THEN probe_clients + 1 ELSE probe_clients
    /\ UNCHANGED <<settings, mainVars, requests, fanoutVars>>

\* await redis_client.ping(); await redis_client.close()
\* except Exception: redis unhealthy, overall_healthy = False (the client
\* opened by this probe is not closed on this path).
HealthRedisProbe ==
    /\ health.pc = "redis"
    /\ health.cache # "silent"
    /\ LET ok == health.cache = "up"
       IN  /\ health' = [health EXCEPT
                           !.redis = IF ok THEN "healthy" ELSE "unhealthy",
                           !.overall_healthy = IF ok THEN @ ELSE FALSE,
                           !.pc = "external"]
           /\ probe_clients' = IF ok THEN probe_clients - 1 ELSE probe_clients
    /\ UNCHANGED <<settings, mainVars, requests, fanoutVars>>

\* health_data["services"]["external_apis"]: configuration only, no call.
ExternalApis(s) ==
    [ abuseipdb |-> [enabled |-> s.enable_abuseipdb,
                     status |-> IF s.abuseipdb_key THEN "configured"
                                                   ELSE "not_configured"],
      cloudflare_radar |-> [enabled |-> s.enable_real_radar_data,
                            mode |-> s.cloudflare_source] ]

\* if not overall_healthy: health_data["status"] = "degraded"
OverallStatus_ProducerRequired(h, s) ==
    IF ~h.overall_healthy \/ ~s.abuseipdb_key THEN "degraded" ELSE h.status

OverallStatus(h, s) ==
    IF ~h.overall_healthy THEN "degraded" ELSE h.status

\* The external APIs section, the overall status and the response.
HealthRespond ==
    /\ health.pc = "external"
    /\ health' = [health EXCEPT
                    !.external_apis = ExternalApis(settings),
                    !.status = OverallStatus(health, settings),
                    !.status_code = IF health.overall_healthy THEN 200 ELSE 503,
                    !.pc = "done"]
    /\ UNCHANGED <<settings, mainVars, probe_clients, requests, fanoutVars>>

HealthStep ==
    \/ HealthDatabaseProbe
    \/ HealthRedisProbe
    \/ HealthRespond

\* readiness_probe (routers/health.py 93-115): both checks in one try block.
\* A request arrives.
ReadinessRequest(db, cache) ==
    /\ health.pc \in {"idle", "done", "ready_done"}
    /\ requests < MaxRequests
    /\ requests' = requests + 1
    /\ health' = [pc |-> "ready_database", db |-> db, cache |-> cache,
                  status_code |-> 0]
    /\ UNCHANGED <<settings, mainVars, probe_clients, fanoutVars>>

\* async with get_session() ...: await session.exec("SELECT 1"), then
\* redis.from_url(...) opens the client; except Exception: HTTPException(503).
ReadinessDatabaseCheck ==
    /\ health.pc = "ready_database"
    /\ health.db # "silent"
    /\ IF health.db = "up"
         THEN /\ health' = [health EXCEPT !.pc = "ready_redis"]
              /\ probe_clients' = probe_clients + 1
         ELSE /\ health' = [health EXCEPT !.pc = "ready_done", !.status_code = 503]
              /\ UNCHANGED probe_clients
    /\ UNCHANGED <<settings, mainVars, requests, fanoutVars>>

\* await redis_client.ping(); await redis_client.close(); return ready.
\* except Exception: HTTPException(503) (the client is not closed on this
\* path).
ReadinessRedisCheck ==
    /\ health.pc = "ready_redis"
    /\ health.cache # "silent"
    /\ IF health.cache = "up"
         THEN /\ health' = [health EXCEPT !.pc = "ready_done", !.status_code = 200]
              /\ probe_clients' = probe_clients - 1
         ELSE /\ health' = [health EXCEPT !.pc = "ready_done", !.status_code = 503]
              /\ UNCHANGED probe_clients
    /\ UNCHANGED <<settings, mainVars, requests, fanoutVars>>

ReadinessStep ==
    \/ ReadinessDatabaseCheck
    \/ ReadinessRedisCheck

HealthInit ==
    /\ settings \in
         { [DefaultSettings EXCEPT !.enable_abuseipdb = e, !.abuseipdb_key = k,
                                   !.enable_real_radar_data = r,
                                   !.cloudflare_source = m] :
             e \in BOOLEAN, k \in BOOLEAN, r \in BOOLEAN, m \in {"mock", "live"} }
    /\ MainInit
    /\ HealthIdle
    /\ FanoutIdle

HealthNext ==
    \/ \E db \in DependencyStates, cache \in DependencyStates : HealthRequest(db, cache)
    \/ HealthDatabaseProbe
    \/ HealthRedisProbe
    \/ HealthRespond
    \/ \E db \in DependencyStates, cache \in DependencyStates : ReadinessRequest(db, cache)
    \/ ReadinessDatabaseCheck
    \/ ReadinessRedisCheck

\* The event loop resumes the handler whenever the call it awaits has
\* returned or raised.
HealthSpec ==
    HealthInit /\ [][HealthNext]_vars /\ WF_vars(HealthStep) /\ WF_vars(ReadinessStep)

----------------------------------------------------------------------------
\* Properties of health_check.

HealthReturned ==
    health.pc = "done"

C8_HealthReturns ==
    (health.pc \in {"database", "redis"}) ~> HealthReturned

----------------------------------------------------------------------------
\* Properties of the scheduler and the jobs.

\* The fire times of job j that have passed since scheduler.start().
DueCount(j) ==
    IF now < first_run_time[j] THEN 0
                               ELSE (now - first_run_time[j]) \div Interval(j) + 1

RaisesEveryTime(a) ==
    stats[a].failed > 0 /\ stats[a].succeeded = 0

\* Job b has neither raised nor overrun, and is between two runs.
RunsCleanly(b) ==
    /\ stats[b].failed = 0
    /\ stats[b].skipped = 0
    /\ executions[b] = <<>>

\* The fire times of job b that have passed and that the scheduler has had
\* its turn to dispatch: all of them, but for one that is due at this instant.
Dispatched(b) ==
    DueCount(b) - (IF Due(b) THEN 1 ELSE 0)

\* C3: while the application serves, a job that raises on every run takes no
\* run away from another job: a job that itself neither raises nor overruns
\* has succeeded once for each of its fire times that have passed.
C3_JobIsolation ==
    \A a \in jobs, b \in jobs :
        (a # b /\ lifespan.pc = "serving" /\ RaisesEveryTime(a) /\ RunsCleanly(b))
            => stats[b].succeeded = Dispatched(b)

\* One job has raised twice and never succeeded; another has run twice.
C3_Witness ==
    \E a \in jobs, b \in jobs :
        /\ a # b /\ lifespan.pc = "serving" /\ RaisesEveryTime(a) /\ RunsCleanly(b)
        /\ stats[a].failed >= 2
        /\ stats[b].succeeded >= 2

\* C4: no job ever has two executions in flight.
C4_NoOverlap ==
    \A j \in JobIds : Len(executions[j]) <= 1

\* A job overran its interval (a fire time found it still in flight) while an
\* execution of another job was in flight too.
C4_Witness ==
    \E j \in jobs, k \in jobs :
        /\ j # k
        /\ stats[j].skipped > 0
        /\ Len(executions[j]) = 1
        /\ Len(executions[k]) = 1

\* C5: the last committed retention run used cutoff = (the time it read) minus
\* the retention window, removed only rows created before the cutoff, and no
\* row created before the cutoff is left.
C5_RetentionExact ==
    last_cleanup.ran =>
        /\ last_cleanup.cutoff =
               last_cleanup.now_read - settings.event_cleanup_hours * TicksPerHour
        /\ \A r \in last_cleanup.removed : r.created_at < last_cleanup.cutoff
        /\ \A r \in store : r.created_at >= last_cleanup.cutoff

\* A retention run removed a row and kept a row that existed when it ran.
C5_Witness ==
    /\ last_cleanup.ran
    /\ last_cleanup.removed # {}
    /\ \E r \in store : r.created_at <= last_cleanup.now_read

\* C6: when scheduler.shutdown() has returned, no execution that was in
\* flight when it was called is unfinished (the code sets no grace timer, so
\* no timeout can have expired instead).
C6_ShutdownWaits ==
    scheduler = "shutdown" => shutdown_left = {}

\* C7: with enable_abuseipdb off the enrichment job is not registered, never
\* runs and no record leaves pending; once jobs are registered, the fetch
\* and cleanup jobs are among them whatever the flag.
C7_EnrichmentDisabled ==
    /\ ~settings.enable_abuseipdb =>
          /\ ENRICH \notin jobs
          /\ executions[ENRICH] = <<>>
          /\ stats[ENRICH] = NoStats
          /\ \A r \in store : r.status = "pending"
    /\ scheduler \in {"running", "shutdown"} => {FETCH, CLEANUP} \subseteq jobs

\* With the flag off the fetch and cleanup jobs have run and a record is stored.
C7_Witness ==
    /\ ~settings.enable_abuseipdb
    /\ stats[FETCH].succeeded > 0
    /\ stats[CLEANUP].succeeded > 0
    /\ store # {}

----------------------------------------------------------------------------
\* The fan-out manager (app.services.websocket.WebSocketManager, created by
\* lifespan at main.py 56-58).  Its state machine per connection is
\* connecting -> active -> closing -> closed; records are the numbers
\* 1..published in publish order.

MaxPublished ==
    3

MaxRateLimit ==
    2

Live ==
    {c \in Conns : conns[c].state \in {"active", "closing"}}

\* A transport handshake completes: the connection asks for admission.
Handshake(c) ==
    /\ conns[c].state = "none"
    /\ conns' = [conns EXCEPT ![c].state = "connecting"]
    /\ UNCHANGED <<settings, mainVars, healthVars, published, last_admit>>

\* The admission decision at the live-connection maximum.
Admits_NoLimit(live, s) ==
    TRUE

Admits(live, s) ==
    Cardinality(live) < s.max_websocket_connections

\* subscribe(connection): admitted, the connection becomes active and
\* receives what is published from now on; at the maximum it is refused with
\* CapacityExceeded and nothing else changes.
Subscribe(c) ==
    /\ conns[c].state = "connecting"
    /\ IF Admits(Live, settings)
         THEN conns' = [conns EXCEPT ![c].state = "active",
                                     ![c].active_from = published]
         ELSE conns' = [conns EXCEPT ![c].state = "closed"]
    /\ last_admit' = [outcome |-> IF Admits(Live, settings) THEN "admitted"
                                                            ELSE "CapacityExceeded",
                      live_before |-> Cardinality(Live),
                      live_kept |-> Live \subseteq Live']
    /\ UNCHANGED <<settings, mainVars, healthVars, published>>

\* One record enters a connection's outbound queue.  The queue holds what the
\* connection may be sent in one rate window (websocket_rate_limit records);
\* a record in excess of that takes the place of the oldest pending one
\* (newest wins).
Enqueue_NewestFirst(q, m, limit) ==
    IF Len(q) >= limit THEN <<m>> \o Tail(q) ELSE <<m>> \o q

Enqueue(q, m, limit) ==
    IF Len(q) >= limit THEN Append(Tail(q), m) ELSE Append(q, m)

\* The store publishes a newly written record: it is enqueued for every
\* connection that is active at this instant.
Publish ==
    /\ published < MaxPublished
    /\ published' = published + 1
    /\ conns' = [c \in Conns |->
                   IF conns[c].state = "active"
                     THEN [conns[c] EXCEPT !.queue =
                             Enqueue(@, published + 1, settings.websocket_rate_limit)]
                     ELSE conns[c]]
    /\ UNCHANGED <<settings, mainVars, healthVars, last_admit>>

\* The delivery task of one connection sends the head of its queue.
Deliver(c) ==
    /\ conns[c].state = "active"
    /\ conns[c].queue # <<>>
    /\ conns' = [conns EXCEPT ![c].observed = Append(@, Head(conns[c].queue)),
                              ![c].queue = Tail(@)]
    /\ UNCHANGED <<settings, mainVars, healthVars, published, last_admit>>

\* Transport error, unsubscribe, or the delivery-retry budget is exhausted.
Unsubscribe(c) ==
    /\ conns[c].state = "active"
    /\ conns' = [conns EXCEPT ![c].state = "closing"]
    /\ UNCHANGED <<settings, mainVars, healthVars, published, last_admit>>

\* The in-flight delivery of a closing connection completes or times out.
Close(c) ==
    /\ conns[c].state = "closing"
    /\ conns' = [conns EXCEPT ![c].state = "closed", ![c].queue = <<>>]
    /\ UNCHANGED <<settings, mainVars, healthVars, published, last_admit>>

FanoutInit ==
    /\ settings \in
         { [DefaultSettings EXCEPT !.max_websocket_connections = m,
                                   !.websocket_rate_limit = r] :
             m \in 1..MaxConns, r \in 1..MaxRateLimit }
    /\ MainInit
    /\ HealthIdle
    /\ FanoutIdle

FanoutNext ==
    \/ \E c \in Conns : Handshake(c)
    \/ \E c \in Conns : Subscribe(c)
    \/ Publish
    \/ \E c \in Conns : Deliver(c)
    \/ \E c \in Conns : Unsubscribe(c)
    \/ \E c \in Conns : Close(c)

FanoutSpec ==
    FanoutInit /\ [][FanoutNext]_vars

\* C9: the live connections never outnumber max_websocket_connections; an
\* admission decision is CapacityExceeded exactly when the live connections
\* had reached the maximum, and no admission decision removes a live
\* connection.
C9_CapacityEnforced ==
    /\ Cardinality(Live) <= settings.max_websocket_connections
    /\ last_admit.outcome # "none" =>
          /\ last_admit.outcome = "CapacityExceeded" <=>
                last_admit.live_before >= settings.max_websocket_connections
          /\ last_admit.live_kept

\* A subscribe attempt was refused at exactly the maximum.
C9_Witness ==
    /\ last_admit.outcome = "CapacityExceeded"
    /\ last_admit.live_before = settings.max_websocket_connections
    /\ Cardinality(Live) = settings.max_websocket_connections

Increasing(q) ==
    \A i \in 1..Len(q), k \in 1..Len(q) : i < k => q[i] < q[k]

\* C10: each connection observes records in publish order, and neither
\* observes nor has queued a record published before it became active.
C10_OrderPreserved ==
    \A c \in Conns :
        /\ Increasing(conns[c].observed \o conns[c].queue)
        /\ \A i \in 1..Len(conns[c].observed) : conns[c].observed[i] > conns[c].active_from
        /\ \A i \in 1..Len(conns[c].queue) : conns[c].queue[i] > conns[c].active_from

\* One connection, active from the start, observed two records with one
\* dropped between them by the rate limit, while another, which became active
\* after the first record, observed the two later ones.
C10_Witness ==
    \E c \in Conns, d \in Conns :
        /\ conns[c].active_from = 0
        /\ Len(conns[c].observed) >= 2
        /\ conns[c].observed[2] > conns[c].observed[1] + 1
        /\ conns[d].active_from > 0
        /\ Len(conns[d].observed) >= 2

----------------------------------------------------------------------------
\* Properties of the store under ingestion, enrichment and retention.

UniqueIds(rows) ==
    \A r1 \in rows, r2 \in rows : r1.id = r2.id => r1 = r2

\* C11: the store never holds two records with one identifier, and an append
\* of an identifier that is already present writes nothing (count written 0)
\* and is not an error: the ingestion cycle that made it ends as a success.
C11_NoDuplicateIds ==
    /\ UniqueIds(store)
    /\ last_append.present => last_append.written = 0
    /\ last_append.appended /\ ~last_append.present => last_append.written = 1
    /\ last_append.appended => stats[FETCH].succeeded > 0

\* A record that enrichment has marked and retention has left in the store was
\* delivered again, later than its creation, and the store still holds it once.
C11_Witness ==
    /\ last_append.present
    /\ stats[CLEANUP].succeeded > 0
    /\ \E r \in store : r.status = "enriched" /\ r.created_at < now
    /\ Cardinality(store) = 2

\* The executions of job j begun so far, while the application serves.
Started(j) ==
    stats[j].succeeded + stats[j].failed + Len(executions[j])

\* C12 as stated: every fire time of a job that has passed resulted in
\* exactly one execution of the job, so that none was skipped.
C12_NeverSkipped ==
    \A j \in jobs :
        lifespan.pc = "serving" =>
            /\ stats[j].skipped = 0
            /\ Started(j) = Dispatched(j)

\* C12, amended: a job's fire times are one interval apart counted from its
\* first fire time, however long its executions take; each fire time that has
\* passed resulted in exactly one execution or, when it found the previous
\* execution still in flight, in exactly one skip, and never in two
\* executions.
C12_FireTimesAligned ==
    \A j \in jobs :
        scheduler = "running" =>
            /\ next_run_time[j] >= first_run_time[j]
            /\ (next_run_time[j] - first_run_time[j]) % Interval(j) = 0
            /\ next_run_time[j] <= now + Interval(j)
            /\ Started(j) + stats[j].skipped = Dispatched(j)
            /\ stats[j].skipped > 0 => Started(j) > 0

\* An execution overran a fire time of its job, which was skipped; it then
\* ended and the job was started again at the fire time after that.
C12_Witness ==
    \E j \in jobs :
        /\ scheduler = "running"
        /\ stats[j].skipped >= 1
        /\ stats[j].succeeded >= 1
        /\ Len(executions[j]) = 1
        /\ Started(j) + stats[j].skipped = 3

\* The identifiers the volatile cache holds, and those among them whose
\* record the retention job has deleted from the durable store (a record
\* enters the cache only when it is written to the store).
Cached ==
    {events_cache[k] : k \in 1..Len(events_cache)}

Stale ==
    {id \in Cached : ~HasId(store, id)}

\* C13: a record that the retention job deleted from the durable store does
\* not stay in the volatile cache for ever: when the lifespan has ended and
\* no execution is left, so that nothing of the application will run again,
\* the cache holds no deleted record.
C13_CacheInvalidated ==
    (lifespan.pc = "done" /\ InFlight = {}) => Stale = {}

\* The cutoffs that tell stores apart within the model's clock (rows are
\* created at tick 0 or later, so a cutoff below 0 removes what cutoff 0
\* removes: nothing), and the rows the delete removes from a table.
Cutoffs ==
    0..MaxTime

Deleted(rows, cutoff) ==
    rows \ DeleteOlderThan(rows, cutoff)

\* C14: on the same store contents, the retention delete with a later cutoff
\* removes every record the delete with an earlier cutoff removes.
C14_RetentionMonotone ==
    \A c1 \in Cutoffs : \A c2 \in (c1 + 1)..MaxTime :
        Deleted(store, c1) \subseteq Deleted(store, c2)

\* The retention job has run on a store on which two cutoffs differ: the
\* earlier one removes a record, the later one removes that record and more.
C14_Witness ==
    /\ stats[CLEANUP].succeeded > 0
    /\ \E c1 \in Cutoffs, c2 \in Cutoffs :
          /\ c1 < c2
          /\ Deleted(store, c1) # {}
          /\ Deleted(store, c1) # Deleted(store, c2)

\* The executions of job j that have ended, by succeeding or by raising.
Ended(j) ==
    stats[j].succeeded + stats[j].failed

----------------------------------------------------------------------------
\* Properties of the lifespan.

\* C16: however the lifespan ended, by a startup step that raised or by a
\* shutdown after serving, once it has ended the Redis client it opened is
\* closed and the scheduler is not running.
C16_ReleasedOnEveryPath ==
    lifespan.pc = "done" => redis_client # "open" /\ scheduler # "running"

\* The lifespan ended on scheduler.start() raising, after the jobs had been
\* added: both the Redis client and the scheduler had been created.
C16_Witness ==
    /\ lifespan.pc = "done"
    /\ lifespan.failed
    /\ lifespan.passed = {"ping", "init_db", "setup"}
    /\ jobs # {}
    /\ redis_client = "closed"
    /\ scheduler = "stopped"

\* C17: once scheduler.shutdown() has been called the scheduler stays shut
\* down and no step begins an execution of any job.
C17_NoStartAfterShutdown ==
    [][scheduler = "shutdown" =>
          /\ scheduler' = "shutdown"
          /\ \A j \in JobIds : Len(executions'[j]) <= Len(executions[j])]_vars

\* After the shutdown the clock has gone past a fire time of a registered
\* job, and no execution of any job is in flight.
C17_Witness ==
    /\ scheduler = "shutdown"
    /\ \E j \in jobs : next_run_time[j] < now
    /\ InFlight = {}

\* Some job has been handed to the executor, or had a fire time processed.
SomeJobFired ==
    \E j \in JobIds : Started(j) > 0 \/ stats[j].skipped > 0

SchedulerStarted ==
    scheduler \in {"running", "shutdown"}

\* C18: the scheduler is started, a job fires and the application serves only
\* after the Redis ping has succeeded and the database has been initialised;
\* when a startup step has failed the scheduler has not been started, no job
\* has fired and the application is not serving.
C18_StartupOrdering ==
    /\ (SchedulerStarted \/ SomeJobFired \/ lifespan.pc = "serving")
           => {"ping", "init_db"} \subseteq lifespan.passed
    /\ lifespan.failed
           => ~SchedulerStarted /\ ~SomeJobFired /\ lifespan.pc # "serving"

\* The ping succeeded and init_db raised; the lifespan has ended and the clock
\* has gone on past the time the jobs would first have fired.
C18_Witness ==
    /\ lifespan.failed
    /\ lifespan.passed = {"ping"}
    /\ lifespan.pc = "done"
    /\ now >= 2

\* The jobs whose bodies were handed the shared Redis client
\* (args=[radar_fetcher], args=[abuse_enricher]).
RedisJobs ==
    {FETCH, ENRICH}

\* C19: the lifespan closes the shared Redis client only when no execution
\* of a job that uses it is in flight: no such execution is unfinished while
\* the client is closed.
C19_NoUseAfterClose ==
    redis_client = "closed" => \A j \in RedisJobs : executions[j] = <<>>

----------------------------------------------------------------------------
\* Properties of the health requests' Redis clients.

\* C20: when no health request is in progress, every Redis client a health
\* request opened has been closed, also after requests whose ping raised.
C20_ProbeClientsClosed ==
    health.pc \in {"idle", "done", "ready_done"} => probe_clients = 0

=============================================================================
